---- MODULE Spec2Model ----
(***************************************************************************)
(* One client session of src/server.js (the body of                        *)
(* wss.on('connection', ...)): the transcript buffer and its processed     *)
(* cursor, the heartbeat that issues generation calls, the merge of the    *)
(* returned updates into the client state, the control messages and the    *)
(* upstream transcription connection.                                      *)
(*                                                                         *)
(* Strings that the code inspects character by character (field ids and    *)
(* field values) are sequences of one-character strings.  The transcript   *)
(* buffer is a sequence of runs of characters: the code only concatenates, *)
(* slices, measures and trims it, so a run records how many characters it  *)
(* holds, whether they are whitespace, and which finalized segment and     *)
(* offset they come from.                                                  *)
(***************************************************************************)
EXTENDS Integers, Sequences, FiniteSets, TLC

\* ------------------------------------------------------------------------
\* Program constants
\* ------------------------------------------------------------------------
TrimThreshold == 50000
KeepSuffix == 40000
MinDelta == 10

\* ------------------------------------------------------------------------
\* Bounds of the model
\* ------------------------------------------------------------------------
MaxCalls == 2
MaxSegments == 2
MaxConns == 1
SyncCalls == 1
SyncSegments == 1
TrimSegments == 3
TrimCalls == 1
LiveCalls == 2
LiveSegments == 1
ParseCalls == 1
ParseSegments == 1
MalformedCalls == 1
MalformedSegments == 1
HandoffCalls == 1
HandoffSegments == 1
HandoffConns == 2
FrameCalls == 1
FrameSegments == 1
FrameConns == 1
SeedCalls == 1
SeedSegments == 1
LabelCalls == 1
LabelSegments == 2
RecoverCalls == 1
RecoverSegments == 1
RetryCalls == 3
RetrySegments == 2
DrainCalls == 2
DrainSegments == 2
StopCalls == 1
StopSegments == 2
StopConns == 2
GuardCalls == 2
GuardSegments == 2
MergeCalls == 1
MergeSegments == 1
AppendCalls == 2
AppendSegments == 2

Min(a, b) == IF a < b THEN a ELSE b
Max(a, b) == IF a > b THEN a ELSE b

\* ------------------------------------------------------------------------
\* Character strings (field ids, field values, update values)
\* ------------------------------------------------------------------------
\* String.prototype.trim strips these from both ends.
IsSpaceCh(c) == c \in {" ", "\n"}

\* UTF-16 code units of the characters the model uses (sort order of ids).
Code(c) ==
    CASE c = "\n" -> 10
      [] c = " " -> 32
      [] c = "*" -> 42
      [] c = "," -> 44
      [] c = "A" -> 65
      [] c = "a" -> 97
      [] c = "b" -> 98
      [] c = "c" -> 99

LowerCh(c) == IF c = "A" THEN "a" ELSE c

\* String.prototype.toLowerCase
ToLowerCase(s) == [i \in 1..Len(s) |-> LowerCh(s[i])]

RECURSIVE TrimStart(_)
TrimStart(s) ==
    IF s # <<>> /\ IsSpaceCh(Head(s)) THEN TrimStart(Tail(s)) ELSE s

RECURSIVE TrimEnd(_)
TrimEnd(s) ==
    IF s # <<>> /\ IsSpaceCh(s[Len(s)])
    THEN TrimEnd(SubSeq(s, 1, Len(s) - 1))
    ELSE s

\* String.prototype.trim
StrTrim(s) == TrimEnd(TrimStart(s))

\* cleanNew.replace(/^\*\s*/, '')
StripBullet(s) ==
    IF s # <<>> /\ Head(s) = "*" THEN TrimStart(Tail(s)) ELSE s

\* String.prototype.includes
Includes(hay, needle) ==
    \E i \in 0..(Len(hay) - Len(needle)) :
        SubSeq(hay, i + 1, i + Len(needle)) = needle

\* a < b in the order Array.prototype.sort uses by default (code units)
RECURSIVE StrLess(_, _)
StrLess(a, b) ==
    IF b = <<>> THEN FALSE
    ELSE IF a = <<>> THEN TRUE
    ELSE IF Code(Head(a)) # Code(Head(b)) THEN Code(Head(a)) < Code(Head(b))
    ELSE StrLess(Tail(a), Tail(b))

RECURSIVE InsertSorted(_, _)
InsertSorted(x, l) ==
    IF l = <<>> THEN <<x>>
    ELSE IF StrLess(Head(l), x) THEN <<Head(l)>> \o InsertSorted(x, Tail(l))
    ELSE <<x>> \o l

\* Array.prototype.sort() on an array of strings
RECURSIVE SortStrings(_)
SortStrings(l) ==
    IF l = <<>> THEN <<>> ELSE InsertSorted(Head(l), SortStrings(Tail(l)))

\* Array.prototype.join(',')
RECURSIVE JoinComma(_)
JoinComma(l) ==
    IF l = <<>> THEN <<>>
    ELSE IF Len(l) = 1 THEN Head(l)
    ELSE Head(l) \o <<",">> \o JoinComma(Tail(l))

\* fields.map(f => f.id)
IdsOf(fields) == [i \in 1..Len(fields) |-> fields[i].id]

\* activeTemplate.map(f => f.id).sort().join(',')
IdKey(fields) == JoinComma(SortStrings(IdsOf(fields)))

IdSet(fields) == {fields[i].id : i \in 1..Len(fields)}

\* ------------------------------------------------------------------------
\* Transcript text: a sequence of runs [seg, off, n, ws]
\*   seg, off : the run is characters off .. off+n-1 of finalized segment seg
\*   n        : number of characters (n > 0)
\*   ws       : TRUE when the characters are whitespace
\* ------------------------------------------------------------------------
RECURSIVE TextLen(_)
\* String.prototype.length
TextLen(t) == IF t = <<>> THEN 0 ELSE Head(t).n + TextLen(Tail(t))

RECURSIVE TextFrom(_, _)
\* t.slice(k) for 0 <= k
TextFrom(t, k) ==
    IF t = <<>> THEN <<>>
    ELSE IF k <= 0 THEN t
    ELSE IF k >= Head(t).n THEN TextFrom(Tail(t), k - Head(t).n)
    ELSE <<[Head(t) EXCEPT !.off = @ + k, !.n = @ - k]>> \o Tail(t)

\* t.slice(k) for any integer k (a negative k counts from the end)
TextSlice(t, k) ==
    IF k >= 0 THEN TextFrom(t, k) ELSE TextFrom(t, Max(TextLen(t) + k, 0))

RECURSIVE TextTrimStart(_)
TextTrimStart(t) ==
    IF t # <<>> /\ Head(t).ws THEN TextTrimStart(Tail(t)) ELSE t

RECURSIVE TextTrimEnd(_)
TextTrimEnd(t) ==
    IF t # <<>> /\ t[Len(t)].ws
    THEN TextTrimEnd(SubSeq(t, 1, Len(t) - 1))
    ELSE t

\* String.prototype.trim on transcript text
TextTrim(t) == TextTrimEnd(TextTrimStart(t))

\* "[Speaker N] " + transcript, preceded by the " " the handler inserts;
\* digits is the number of digits of N, transcript a sequence of [n, ws].
SegmentText(seg, digits, transcript) ==
    LET parts == << [n |-> 1, ws |-> TRUE],
                    [n |-> 8, ws |-> FALSE],
                    [n |-> 1, ws |-> TRUE],
                    [n |-> digits + 1, ws |-> FALSE],
                    [n |-> 1, ws |-> TRUE] >> \o transcript
        start[i \in 1..Len(parts)] ==
            IF i = 1 THEN 0 ELSE start[i - 1] + parts[i - 1].n
    IN  [i \in 1..Len(parts) |->
            [seg |-> seg, off |-> start[i], n |-> parts[i].n, ws |-> parts[i].ws]]

\* ------------------------------------------------------------------------
\* Inputs
\* ------------------------------------------------------------------------
IdA == <<"a">>
IdB == <<"b">>
IdC == <<"c">>
IdAB == <<"a", ",", "b">>

Empty == <<>>
BulletA == <<"*", " ", "a">>
BulletUpperA == <<"*", " ", "A">>
BulletB == <<"*", " ", "b">>
PaddedA == <<" ", "a", " ">>
PaddedB == <<" ", "b", " ">>
ValB == <<"b">>

F(id, v) == [id |-> id, currentValue |-> v]

\* what JSON.parse gives for an updateTemplate payload that is a JSON object
\* and not an array, such as {}: a value with no map method and no length.
\* It stands in activeTemplate as this one-element list, JS comparing its
\* undefined length with 0 as unequal.
NotAnArray == <<[id |-> <<"{", "}">>]>>

\* the value has the methods of an array
IsArray(template) == template # NotAnArray

U(id, action, value) == [fieldId |-> id, action |-> action, value |-> value]

\* outcomes of the generation call:
\*   reject     the promise rejects (network / service error)
\*   notext     a response without candidates[0].content.parts[0].text
\*   direct     JSON.parse(rawText) succeeds with value
\*   fallback   JSON.parse(rawText) throws, /\{[\s\S]*\}/ matches and the
\*              match parses to value
\*   badmatch   JSON.parse(rawText) throws, the regex matches and
\*              JSON.parse of the match throws
\*   nomatch    JSON.parse(rawText) throws and the regex does not match
\* A response is [kind] or [kind, value]; value is what JSON.parse yields:
\* [kind |-> "null"], or [kind |-> "object"] with or without an updates list.

\* ------------------------------------------------------------------------
\* State
\* ------------------------------------------------------------------------
VARIABLES
    dgConnection,               \* 0 (null) or the index in dg of the handle
    dg,                         \* upstream connections created so far
    activeTemplate,
    currentClientState,
    slidingWindowTranscript,
    processedTranscriptLength,
    heartbeat,                  \* "null", "running" or "cleared"
    intervals,                  \* number of interval timers set and not cleared
    sessionAge,                 \* Date.now() - connectionStartTime: "fresh" or "over55"
    isProcessing,
    calls,                      \* generation calls issued so far
    wsOpen,                     \* the client connection has not closed
    nSegments,                  \* finalized segments appended so far
    rescanDue,                  \* a sync changed the id set and no call was issued since
    last                        \* the handler that ran last and what it sent

vars == << dgConnection, dg, activeTemplate, currentClientState,
           slidingWindowTranscript, processedTranscriptLength, heartbeat, intervals,
           sessionAge, isProcessing, calls, wsOpen, nSegments, rescanDue, last >>

\* a status message that always says active
StatusMsgAlwaysActive(active) == [type |-> "status", active |-> TRUE]

StatusMsg(active) == [type |-> "status", active |-> active]

\* a catch block that reports nothing but the idle status
ErrorMsgAsStatus == [type |-> "status", active |-> FALSE]

ErrorMsg == [type |-> "error"]
TranscriptMsg(speaker, transcript) ==
    [type |-> "transcript", speaker |-> speaker, text |-> transcript, isFinal |-> TRUE]
TemplateUpdateMsg(data) == [type |-> "templateUpdate", data |-> data]

Ran(op, call, info, out) == [op |-> op, call |-> call, info |-> info, out |-> out]

Init ==
    /\ dgConnection = 0
    /\ dg = <<>>
    /\ activeTemplate = <<>>
    /\ currentClientState = [fields |-> <<>>, userNotes |-> Empty]
    /\ slidingWindowTranscript = <<>>
    /\ processedTranscriptLength = 0
    /\ heartbeat = "null"
    /\ intervals = 0
    /\ sessionAge = "fresh"
    /\ isProcessing = FALSE
    /\ calls = <<>>
    /\ wsOpen = TRUE
    /\ nSegments = 0
    /\ rescanDue = FALSE
    /\ last = Ran("connect", 0, "", <<>>)

\* ------------------------------------------------------------------------
\* Merge of one extraction result (the updates.forEach callback)
\* ------------------------------------------------------------------------
\* currentClientState.fields.find(f => f.id === update.fieldId): index or 0
FindField(fields, id) ==
    IF \E i \in 1..Len(fields) : fields[i].id = id
    THEN CHOOSE i \in 1..Len(fields) :
            /\ fields[i].id = id
            /\ \A j \in 1..(i - 1) : fields[j].id # id
    ELSE 0

\* an APPEND that joins with a newline even when the field is empty
AppendValueAlwaysNewline(oldValue, value) ==
    LET cleanValue == StrTrim(value)
        cleanExisting == StrTrim(ToLowerCase(oldValue))
        cleanNew == StrTrim(ToLowerCase(cleanValue))
    IN  IF Includes(cleanExisting, StripBullet(cleanNew)) THEN oldValue
        ELSE oldValue \o <<"\n">> \o cleanValue

\* an APPEND whose duplicate check compares without toLowerCase
AppendValueCaseSensitive(oldValue, value) ==
    LET cleanValue == StrTrim(value)
    IN  IF Includes(StrTrim(oldValue), StripBullet(cleanValue)) THEN oldValue
        ELSE IF oldValue # <<>> THEN oldValue \o <<"\n">> \o cleanValue
        ELSE cleanValue

\* the value an APPEND leaves in a field holding oldValue
AppendValue(oldValue, value) ==
    LET cleanValue == StrTrim(value)
        cleanExisting == StrTrim(ToLowerCase(oldValue))
        cleanNew == StrTrim(ToLowerCase(cleanValue))
    IN  IF Includes(cleanExisting, StripBullet(cleanNew)) THEN oldValue
        ELSE IF oldValue # <<>> THEN oldValue \o <<"\n">> \o cleanValue
        ELSE cleanValue

\* a REPLACE that stores the proposed value as it came
ReplaceValueUntrimmed(oldValue, value) == value

\* the value a REPLACE leaves in a field holding oldValue
ReplaceValue(oldValue, value) ==
    IF oldValue = StrTrim(value) THEN oldValue ELSE StrTrim(value)

\* the accumulator of updates.forEach before the first iteration; threw is
\* set when an iteration throws, which ends the loop
StartMerge(fields) == [fields |-> fields, changesMade |-> FALSE, threw |-> FALSE]

\* update.value.trim() throws a TypeError when update has no value
HasValue(update) == "value" \in DOMAIN update

\* a loop body that throws on an unknown field id
ApplyUpdateUnknownThrows(acc, update) ==
    LET i == FindField(acc.fields, update.fieldId)
    IN  IF acc.threw THEN acc
        ELSE IF i = 0 THEN [acc EXCEPT !.threw = TRUE]
        ELSE LET oldValue == acc.fields[i].currentValue
                 newValue ==
                     IF update.action = "APPEND"
                     THEN AppendValue(oldValue, update.value)
                     ELSE IF update.action = "REPLACE"
                     THEN ReplaceValue(oldValue, update.value)
                     ELSE oldValue
             IN  IF newValue # oldValue
                 THEN [acc EXCEPT !.fields[i].currentValue = newValue,
                                  !.changesMade = TRUE]
                 ELSE acc

\* one iteration of updates.forEach on acc = [fields, changesMade, threw]
ApplyUpdate(acc, update) ==
    LET i == FindField(acc.fields, update.fieldId)
    IN  IF acc.threw \/ i = 0 THEN acc
        ELSE IF update.action \in {"APPEND", "REPLACE"} /\ ~HasValue(update)
        THEN [acc EXCEPT !.threw = TRUE]
        ELSE LET oldValue == acc.fields[i].currentValue
                 newValue ==
                     IF update.action = "APPEND"
                     THEN AppendValue(oldValue, update.value)
                     ELSE IF update.action = "REPLACE"
                     THEN ReplaceValue(oldValue, update.value)
                     ELSE oldValue
             IN  IF newValue # oldValue
                 THEN [acc EXCEPT !.fields[i].currentValue = newValue,
                                  !.changesMade = TRUE]
                 ELSE acc

RECURSIVE ApplyUpdates(_, _)
ApplyUpdates(acc, updates) ==
    IF updates = <<>> THEN acc
    ELSE ApplyUpdates(ApplyUpdate(acc, Head(updates)), Tail(updates))

\* result.updates.filter(u => u.action !== "SKIP")
RECURSIVE WithoutSkips(_)
WithoutSkips(updates) ==
    IF updates = <<>> THEN <<>>
    ELSE IF Head(updates).action # "SKIP"
    THEN <<Head(updates)>> \o WithoutSkips(Tail(updates))
    ELSE WithoutSkips(Tail(updates))

\* currentClientState.fields.reduce((acc, f) => { acc[f.id] = f.currentValue })
FlatUpdate(fields) ==
    [id \in IdSet(fields) |->
        LET i == CHOOSE i \in 1..Len(fields) :
                    /\ fields[i].id = id
                    /\ \A j \in (i + 1)..Len(fields) : fields[j].id # id
        IN  fields[i].currentValue]

\* ------------------------------------------------------------------------
\* Heartbeat (the setInterval callback of startHeartbeat, up to its await)
\* ------------------------------------------------------------------------
\* the armed 15 s timeouts, one tick (10 s) older
OneTickLater(cs) ==
    [c \in 1..Len(cs) |->
        IF cs[c].timer = "armed" THEN [cs[c] EXCEPT !.age = @ + 1] ELSE cs[c]]

\* a 15 s timeout armed at a tick fires before the second tick after it
TimeoutDue(c) == calls[c].timer = "armed" /\ calls[c].age >= 1

\* a first guard that never recovers the template
RecoveredTemplateNever == activeTemplate

\* activeTemplate after the recovery attempt of the first guard
RecoveredTemplate ==
    IF Len(activeTemplate) = 0 /\ Len(currentClientState.fields) > 0
    THEN [i \in 1..Len(currentClientState.fields) |->
            [id |-> currentClientState.fields[i].id]]
    ELSE activeTemplate

\* a delta that ignores the cursor
NewContentWholeBuffer == slidingWindowTranscript

\* a delta that starts one character before the cursor
NewContentOffByOne ==
    TextSlice(slidingWindowTranscript, Max(processedTranscriptLength - 1, 0))

\* slidingWindowTranscript.slice(processedTranscriptLength)
NewContent == TextSlice(slidingWindowTranscript, processedTranscriptLength)

\* what a tick did; recovered tells that it took the recovery branch
RanTick(call, info, out) ==
    [op |-> "tick", call |-> call, info |-> info, out |-> out,
     recovered |-> Len(activeTemplate) = 0 /\ Len(currentClientState.fields) > 0]

HeartbeatTick(maxCalls) ==
    /\ heartbeat = "running"
    /\ \A c \in 1..Len(calls) : ~TimeoutDue(c)
    /\ UNCHANGED << dgConnection, dg, currentClientState, slidingWindowTranscript,
                    processedTranscriptLength, heartbeat, intervals, sessionAge, wsOpen,
                    nSegments >>
    /\ IF Len(RecoveredTemplate) = 0
       THEN /\ last' = RanTick(0, "waiting", <<>>)
            /\ calls' = OneTickLater(calls)
            /\ UNCHANGED << activeTemplate, isProcessing, rescanDue >>
       ELSE IF TextLen(TextTrim(NewContent)) < MinDelta
       THEN /\ activeTemplate' = RecoveredTemplate
            /\ last' = RanTick(0, "nodelta", <<>>)
            /\ calls' = OneTickLater(calls)
            /\ UNCHANGED << isProcessing, rescanDue >>
       ELSE IF isProcessing
       THEN /\ activeTemplate' = RecoveredTemplate
            /\ last' = RanTick(0, "busy", <<>>)
            /\ calls' = OneTickLater(calls)
            /\ UNCHANGED << isProcessing, rescanDue >>
       ELSE IF ~IsArray(activeTemplate)
       THEN \* activeTemplate.map throws inside the try block, before the call
            /\ last' = RanTick(0, "threw",
                               <<StatusMsg(TRUE), ErrorMsg, StatusMsg(FALSE)>>)
            /\ calls' = OneTickLater(calls)
            /\ UNCHANGED << activeTemplate, isProcessing, rescanDue >>
       ELSE /\ Len(calls) < maxCalls
            /\ activeTemplate' = RecoveredTemplate
            /\ isProcessing' = TRUE
            /\ calls' = Append(OneTickLater(calls),
                               [st |-> "pending", timer |-> "armed", age |-> 0,
                                newContent |-> NewContent,
                                lengthAtCall |-> TextLen(slidingWindowTranscript),
                                reset |-> FALSE])
            /\ rescanDue' = FALSE
            /\ last' = RanTick(Len(calls) + 1, "call", <<StatusMsg(TRUE)>>)

\* a timeout callback that logs and leaves the lock alone
ProcessingTimeoutKeepsLock(c) ==
    /\ c \in 1..Len(calls)
    /\ calls[c].timer = "armed"
    /\ TimeoutDue(c) \/ heartbeat # "running"
    /\ \A d \in 1..(c - 1) : calls[d].timer # "armed"
    /\ calls' = [calls EXCEPT ![c].timer = "fired"]
    /\ last' = Ran("timeout", c, "idle", <<>>)
    /\ UNCHANGED << dgConnection, dg, activeTemplate, currentClientState,
                    slidingWindowTranscript, processedTranscriptLength, heartbeat, intervals,
                    sessionAge, isProcessing, wsOpen, nSegments, rescanDue >>

\* the callback of processingTimeout
ProcessingTimeout(c) ==
    /\ c \in 1..Len(calls)
    /\ calls[c].timer = "armed"
    /\ TimeoutDue(c) \/ heartbeat # "running"
    /\ \A d \in 1..(c - 1) : calls[d].timer # "armed"
    /\ calls' = [calls EXCEPT ![c].timer = "fired"]
    /\ IF isProcessing
       THEN /\ isProcessing' = FALSE
            /\ last' = Ran("timeout", c, "unlock", <<StatusMsg(FALSE)>>)
       ELSE /\ UNCHANGED isProcessing
            /\ last' = Ran("timeout", c, "idle", <<>>)
    /\ UNCHANGED << dgConnection, dg, activeTemplate, currentClientState,
                    slidingWindowTranscript, processedTranscriptLength, heartbeat, intervals,
                    sessionAge, wsOpen, nSegments, rescanDue >>

\* ------------------------------------------------------------------------
\* The rest of the setInterval callback, run when generateContent settles
\* ------------------------------------------------------------------------
\* the try block throws: the call rejected, or the fallback JSON.parse threw
Throws(r) == r.kind \in {"reject", "badmatch"}

\* the value of `result` after the JSON extraction
ResultOf(r) ==
    IF r.kind \in {"direct", "fallback"} THEN r.value ELSE [kind |-> "null"]

\* !(!result || !result.updates)
HasUpdates(result) == result.kind = "object" /\ "updates" \in DOMAIN result

\* what the finally block does to the call record
Settled(c, failed) ==
    [calls EXCEPT ![c].st = IF failed THEN "failed" ELSE "ok",
                  ![c].timer = IF @ = "armed" THEN "cleared" ELSE @]

\* the updates the merge loop goes through
UpdatesOf(r) == WithoutSkips(ResultOf(r).updates)

\* the merge loop runs: a result with updates that are not all SKIP
Merges(r) ==
    /\ ~Throws(r)
    /\ HasUpdates(ResultOf(r))
    /\ Len(UpdatesOf(r)) > 0

\* the merge loop of response r on the fields of the client state
MergeOf(r) == ApplyUpdates(StartMerge(currentClientState.fields), UpdatesOf(r))

\* control reaches the catch block
Caught(r) == Throws(r) \/ (Merges(r) /\ MergeOf(r).threw)

\* the record of a step that ran the merge loop over updates
RanMerge(call, info, out, updates) ==
    [op |-> "settle", call |-> call, info |-> info, out |-> out,
     updates |-> updates]

GenerateContentSettles(c, r) ==
    /\ c \in 1..Len(calls)
    /\ calls[c].st = "pending"
    /\ calls' = Settled(c, Caught(r))
    /\ isProcessing' = FALSE
    /\ UNCHANGED << dgConnection, dg, activeTemplate, slidingWindowTranscript,
                    heartbeat, intervals, sessionAge, wsOpen, nSegments, rescanDue >>
    /\ IF Throws(r)
       THEN /\ last' = Ran("settle", c, r.kind, <<ErrorMsg, StatusMsg(FALSE)>>)
            /\ UNCHANGED << currentClientState, processedTranscriptLength >>
       ELSE IF ~HasUpdates(ResultOf(r))
       THEN /\ processedTranscriptLength' = TextLen(slidingWindowTranscript)
            /\ last' = Ran("settle", c,
                           IF r.kind = "nomatch" THEN "nomatch" ELSE "noresult",
                           <<StatusMsg(FALSE)>>)
            /\ UNCHANGED currentClientState
       ELSE IF Len(UpdatesOf(r)) = 0
       THEN /\ processedTranscriptLength' = TextLen(slidingWindowTranscript)
            /\ last' = Ran("settle", c, "allskip", <<StatusMsg(FALSE)>>)
            /\ UNCHANGED currentClientState
       ELSE /\ currentClientState' =
                   [currentClientState EXCEPT !.fields = MergeOf(r).fields]
            /\ IF MergeOf(r).threw
               THEN /\ UNCHANGED processedTranscriptLength
                    /\ last' = RanMerge(c, "threw", <<ErrorMsg, StatusMsg(FALSE)>>,
                                        UpdatesOf(r))
               ELSE /\ processedTranscriptLength' = TextLen(slidingWindowTranscript)
                    /\ last' = RanMerge(c, "merged",
                                        IF MergeOf(r).changesMade
                                        THEN << TemplateUpdateMsg(
                                                    FlatUpdate(MergeOf(r).fields)),
                                                StatusMsg(FALSE) >>
                                        ELSE << StatusMsg(FALSE) >>,
                                        UpdatesOf(r))

\* ------------------------------------------------------------------------
\* Upstream transcription connection (setupDeepgram and its handlers)
\* ------------------------------------------------------------------------
\* number of digits of the speaker index in the label
Digits(n) == IF n < 10 THEN 1 ELSE 2

\* the speaker label without the default
SpeakerOfNoDefault(speaker) == speaker

\* words[0]?.speaker ?? 0; -1 stands for a first word without a speaker
SpeakerOf(speaker) == IF speaker = -1 THEN 0 ELSE speaker

\* the safety cap with slice(40000) written for slice(-40000)
CappedTextSliceFromStart(t) ==
    IF TextLen(t) > TrimThreshold THEN TextSlice(t, KeepSuffix) ELSE t

\* the safety cap without the adjustment of the processed pointer
CappedCursorNotAdjusted(t, cursor) == cursor

\* slidingWindowTranscript after the safety cap, t being the text after +=
CappedText(t) ==
    IF TextLen(t) > TrimThreshold THEN TextSlice(t, 0 - KeepSuffix) ELSE t

\* processedTranscriptLength after the safety cap
CappedCursor(t, cursor) ==
    IF TextLen(t) > TrimThreshold /\ cursor > KeepSuffix THEN KeepSuffix ELSE cursor

\* the LiveTranscriptionEvents.Transcript handler of connection conn
OnTranscript(conn, transcript, isFinal, speaker, maxSegments) ==
    /\ conn \in 1..Len(dg)
    /\ dg[conn] \in {"open", "finishing"}
    /\ UNCHANGED << dgConnection, dg, activeTemplate, currentClientState, heartbeat, intervals,
                    sessionAge, isProcessing, calls, wsOpen, rescanDue >>
    /\ IF transcript # <<>> /\ isFinal
       THEN /\ nSegments < maxSegments
            /\ LET appended ==
                       slidingWindowTranscript \o
                       SegmentText(nSegments + 1, Digits(SpeakerOf(speaker)), transcript)
               IN  /\ slidingWindowTranscript' = CappedText(appended)
                   /\ processedTranscriptLength' =
                          CappedCursor(appended, processedTranscriptLength)
            /\ nSegments' = nSegments + 1
            /\ last' = Ran("transcript", conn, "final",
                           <<TranscriptMsg(SpeakerOf(speaker), transcript)>>)
       ELSE /\ last' = Ran("transcript", conn, "ignored", <<>>)
            /\ UNCHANGED << slidingWindowTranscript, processedTranscriptLength,
                            nSegments >>

\* the 'error' handler of connection conn: logs
OnDeepgramError(conn) ==
    /\ conn \in 1..Len(dg)
    /\ dg[conn] # "closed"
    /\ last' = Ran("dgerror", conn, "", <<>>)
    /\ UNCHANGED << dgConnection, dg, activeTemplate, currentClientState,
                    slidingWindowTranscript, processedTranscriptLength, heartbeat, intervals,
                    sessionAge, isProcessing, calls, wsOpen, nSegments, rescanDue >>

\* the upstream reports the connection open (getReadyState() becomes 1)
DeepgramOpens(conn) ==
    /\ conn \in 1..Len(dg)
    /\ dg[conn] = "connecting"
    /\ dg' = [dg EXCEPT ![conn] = "open"]
    /\ last' = Ran("dgopen", conn, "", <<>>)
    /\ UNCHANGED << dgConnection, activeTemplate, currentClientState,
                    slidingWindowTranscript, processedTranscriptLength, heartbeat, intervals,
                    sessionAge, isProcessing, calls, wsOpen, nSegments, rescanDue >>

\* the upstream connection ends (after finish(), or on its own)
DeepgramCloses(conn) ==
    /\ conn \in 1..Len(dg)
    /\ dg[conn] # "closed"
    /\ dg' = [dg EXCEPT ![conn] = "closed"]
    /\ last' = Ran("dgclose", conn, "", <<>>)
    /\ UNCHANGED << dgConnection, activeTemplate, currentClientState,
                    slidingWindowTranscript, processedTranscriptLength, heartbeat, intervals,
                    sessionAge, isProcessing, calls, wsOpen, nSegments, rescanDue >>

\* dgConnection.finish()
Finished(conns, conn) ==
    IF conn # 0 /\ conns[conn] # "closed"
    THEN [conns EXCEPT ![conn] = "finishing"]
    ELSE conns

\* more than 55 minutes go by since connectionStartTime (the age is only
\* read while an upstream handle exists)
TimePasses ==
    /\ wsOpen
    /\ dgConnection # 0
    /\ sessionAge = "fresh"
    /\ sessionAge' = "over55"
    /\ last' = Ran("time", 0, "", <<>>)
    /\ UNCHANGED << dgConnection, dg, activeTemplate, currentClientState,
                    slidingWindowTranscript, processedTranscriptLength, heartbeat, intervals,
                    isProcessing, calls, wsOpen, nSegments, rescanDue >>

\* ------------------------------------------------------------------------
\* Client connection (ws.on('message'), ws.on('close'))
\* ------------------------------------------------------------------------
\* an updateTemplate handler that seeds the client state every time
OnMessageUpdateTemplateReseeds(template) ==
    /\ wsOpen
    /\ activeTemplate' = template
    /\ currentClientState' =
          IF IsArray(template)
          THEN [currentClientState EXCEPT
                   !.fields = [i \in 1..Len(template) |->
                                  [id |-> template[i].id, currentValue |-> Empty]]]
          ELSE currentClientState
    /\ last' = Ran("updateTemplate", 0,
                   IF IsArray(template) THEN "" ELSE "notarray", <<>>)
    /\ UNCHANGED << dgConnection, dg, slidingWindowTranscript,
                    processedTranscriptLength, heartbeat, intervals, sessionAge, isProcessing,
                    calls, wsOpen, nSegments, rescanDue >>

\* a text message 'updateTemplate:' + JSON of a descriptor list
OnMessageUpdateTemplate(template) ==
    /\ wsOpen
    /\ activeTemplate' = template
    /\ currentClientState' =
          IF Len(currentClientState.fields) = 0 /\ IsArray(template)
          THEN [currentClientState EXCEPT
                   !.fields = [i \in 1..Len(template) |->
                                  [id |-> template[i].id, currentValue |-> Empty]]]
          ELSE currentClientState
    /\ last' = Ran("updateTemplate", 0,
                   IF IsArray(template) THEN "" ELSE "notarray", <<>>)
    /\ UNCHANGED << dgConnection, dg, slidingWindowTranscript,
                    processedTranscriptLength, heartbeat, intervals, sessionAge, isProcessing,
                    calls, wsOpen, nSegments, rescanDue >>

\* processedTranscriptLength after the smart reset of a contextUpdate
ResetCursor(template, fields, cursor) ==
    IF IdKey(template) # IdKey(fields) THEN 0 ELSE cursor

\* a text message {type: 'contextUpdate', fields, userNotes}
OnMessageContextUpdate(fields, userNotes) ==
    /\ wsOpen
    /\ currentClientState' = [fields |-> fields, userNotes |-> userNotes]
    /\ IF Len(fields) > 0 /\ ~IsArray(activeTemplate)
       THEN \* activeTemplate.map throws and the handler's catch swallows it
            UNCHANGED << processedTranscriptLength, activeTemplate, calls, rescanDue >>
       ELSE IF Len(fields) > 0
       THEN /\ processedTranscriptLength' =
                   ResetCursor(activeTemplate, fields, processedTranscriptLength)
            /\ activeTemplate' = [i \in 1..Len(fields) |-> [id |-> fields[i].id]]
            /\ calls' = IF IdKey(activeTemplate) # IdKey(fields)
                        THEN [c \in 1..Len(calls) |-> [calls[c] EXCEPT !.reset = TRUE]]
                        ELSE calls
            /\ rescanDue' = (rescanDue \/ IdSet(activeTemplate) # IdSet(fields))
       ELSE UNCHANGED << processedTranscriptLength, activeTemplate, calls, rescanDue >>
    /\ last' = Ran("contextUpdate", 0, "", <<>>)
    /\ UNCHANGED << dgConnection, dg, slidingWindowTranscript, heartbeat, intervals,
                    sessionAge, isProcessing, wsOpen, nSegments >>

\* a text message that is neither an updateTemplate command nor the JSON of
\* a contextUpdate: JSON.parse throws, or the type is another one
OnMessageNotJson ==
    /\ wsOpen
    /\ last' = Ran("text", 0, "ignored", <<>>)
    /\ UNCHANGED << dgConnection, dg, activeTemplate, currentClientState,
                    slidingWindowTranscript, processedTranscriptLength, heartbeat, intervals,
                    sessionAge, isProcessing, calls, wsOpen, nSegments, rescanDue >>

\* an audio handler that opens an upstream connection only when there is none
OnMessageAudioNoRefresh(maxConns) ==
    /\ wsOpen
    /\ IF dgConnection = 0
       THEN /\ Len(dg) < maxConns
            /\ dg' = Append(Finished(dg, dgConnection), "connecting")
            /\ dgConnection' = Len(dg) + 1
            /\ sessionAge' = "fresh"
            /\ heartbeat' = IF heartbeat = "null" THEN "running" ELSE heartbeat
            /\ intervals' = IF heartbeat = "null" THEN intervals + 1 ELSE intervals
            /\ last' = Ran("audio", 0, "setup", <<>>)
       ELSE /\ UNCHANGED << dg, dgConnection, sessionAge, heartbeat, intervals >>
            /\ last' = IF dg[dgConnection] = "open"
                       THEN Ran("audio", dgConnection, "forwarded", <<>>)
                       ELSE Ran("audio", 0, "dropped", <<>>)
    /\ UNCHANGED << activeTemplate, currentClientState, slidingWindowTranscript,
                    processedTranscriptLength, isProcessing, calls, wsOpen,
                    nSegments, rescanDue >>

\* an audio handler that sets an interval timer at every setup
OnMessageAudioRestartsHeartbeat(maxConns) ==
    /\ wsOpen
    /\ IF sessionAge = "over55" \/ dgConnection = 0
       THEN /\ Len(dg) < maxConns
            /\ dg' = Append(Finished(dg, dgConnection), "connecting")
            /\ dgConnection' = Len(dg) + 1
            /\ sessionAge' = "fresh"
            /\ heartbeat' = "running"
            /\ intervals' = intervals + 1
            /\ last' = Ran("audio", 0, IF dgConnection = 0 THEN "setup" ELSE "handoff",
                           <<>>)
       ELSE /\ UNCHANGED << dg, dgConnection, sessionAge, heartbeat, intervals >>
            /\ last' = IF dg[dgConnection] = "open"
                       THEN Ran("audio", dgConnection, "forwarded", <<>>)
                       ELSE Ran("audio", 0, "dropped", <<>>)
    /\ UNCHANGED << activeTemplate, currentClientState, slidingWindowTranscript,
                    processedTranscriptLength, isProcessing, calls, wsOpen,
                    nSegments, rescanDue >>

\* an audio handler that sends the frame whatever the ready state
OnMessageAudioForwardsUnready(maxConns) ==
    /\ wsOpen
    /\ IF sessionAge = "over55" \/ dgConnection = 0
       THEN /\ Len(dg) < maxConns
            /\ dg' = Append(Finished(dg, dgConnection), "connecting")
            /\ dgConnection' = Len(dg) + 1
            /\ sessionAge' = "fresh"
            /\ heartbeat' = IF heartbeat = "null" THEN "running" ELSE heartbeat
            /\ intervals' = IF heartbeat = "null" THEN intervals + 1 ELSE intervals
            /\ last' = Ran("audio", Len(dg) + 1, "forwarded", <<>>)
       ELSE /\ UNCHANGED << dg, dgConnection, sessionAge, heartbeat, intervals >>
            /\ last' = Ran("audio", dgConnection, "forwarded", <<>>)
    /\ UNCHANGED << activeTemplate, currentClientState, slidingWindowTranscript,
                    processedTranscriptLength, isProcessing, calls, wsOpen,
                    nSegments, rescanDue >>

\* a binary message (an audio frame)
OnMessageAudio(maxConns) ==
    /\ wsOpen
    /\ IF sessionAge = "over55" \/ dgConnection = 0
       THEN /\ Len(dg) < maxConns
            /\ dg' = Append(Finished(dg, dgConnection), "connecting")
            /\ dgConnection' = Len(dg) + 1
            /\ sessionAge' = "fresh"
            /\ heartbeat' = IF heartbeat = "null" THEN "running" ELSE heartbeat
            /\ intervals' = IF heartbeat = "null" THEN intervals + 1 ELSE intervals
            /\ last' = Ran("audio", 0, IF dgConnection = 0 THEN "setup" ELSE "handoff",
                           <<>>)
       ELSE /\ UNCHANGED << dg, dgConnection, sessionAge, heartbeat, intervals >>
            /\ last' = IF dg[dgConnection] = "open"
                       THEN Ran("audio", dgConnection, "forwarded", <<>>)
                       ELSE Ran("audio", 0, "dropped", <<>>)
    /\ UNCHANGED << activeTemplate, currentClientState, slidingWindowTranscript,
                    processedTranscriptLength, isProcessing, calls, wsOpen,
                    nSegments, rescanDue >>

\* An inbound WebSocket message as the 'message' listener receives it.  flag
\* is the isBinary argument: "binary" or "text" when the transport passes it
\* (ws 8 and later, where a text message arrives as a Buffer too), "none"
\* when it does not (ws 7: isBinary is undefined and a text message arrives
\* as a string).  first is the first byte, "" for an empty message; body is
\* what the sender put in the message.
TemplateFrame(flag) ==
    [flag |-> flag, isBuffer |-> flag # "none", first |-> "u", body |-> "updateTemplate"]
ContextFrame(flag) ==
    [flag |-> flag, isBuffer |-> flag # "none", first |-> "{", body |-> "contextUpdate"]
OtherTextFrame(flag) ==
    [flag |-> flag, isBuffer |-> flag # "none", first |-> "h", body |-> "other"]
AudioFrame(flag, first) ==
    [flag |-> flag, isBuffer |-> TRUE, first |-> first, body |-> "audio"]

Frames ==
    { TemplateFrame(flag) : flag \in {"text", "none"} }
      \cup { ContextFrame(flag) : flag \in {"text", "none"} }
      \cup { OtherTextFrame(flag) : flag \in {"text", "none"} }
      \cup { AudioFrame(flag, first) : flag \in {"binary", "none"},
                                      first \in {"", "x", "{"} }

\* isBinary || (Buffer.isBuffer(message) && message.length > 0 && message[0] !== 123)
IsMsgBinary(frame) ==
    \/ frame.flag = "binary"
    \/ frame.isBuffer /\ frame.first # "" /\ frame.first # "{"

\* ws.on('message'): the whole listener.  Bytes of audio read as text are
\* not a command.
OnMessage(frame, in) ==
    IF IsMsgBinary(frame)
    THEN OnMessageAudio(in.maxConns)
    ELSE IF frame.body = "updateTemplate"
    THEN \E t \in in.templates : OnMessageUpdateTemplate(t)
    ELSE IF frame.body = "contextUpdate"
    THEN \E f \in in.syncs, n \in in.notes : OnMessageContextUpdate(f, n)
    ELSE OnMessageNotJson

\* a close handler that leaves the interval timer running
OnCloseKeepsHeartbeat ==
    /\ wsOpen
    /\ wsOpen' = FALSE
    /\ dg' = Finished(dg, dgConnection)
    /\ last' = Ran("close", 0, "", <<>>)
    /\ UNCHANGED << dgConnection, activeTemplate, currentClientState,
                    slidingWindowTranscript, processedTranscriptLength, heartbeat, intervals,
                    sessionAge, isProcessing, calls, nSegments, rescanDue >>

\* ws.on('close')
OnClose ==
    /\ wsOpen
    /\ wsOpen' = FALSE
    /\ heartbeat' = IF heartbeat = "running" THEN "cleared" ELSE heartbeat
    /\ intervals' = IF heartbeat = "running" THEN intervals - 1 ELSE intervals
    /\ dg' = Finished(dg, dgConnection)
    /\ last' = Ran("close", 0, "", <<>>)
    /\ UNCHANGED << dgConnection, activeTemplate, currentClientState,
                    slidingWindowTranscript, processedTranscriptLength, sessionAge,
                    isProcessing, calls, nSegments, rescanDue >>

\* ------------------------------------------------------------------------
\* Specification
\* ------------------------------------------------------------------------
\* one step of the session; in gives the sets the inputs are drawn from and
\* the bounds on calls, segments and upstream connections
NextOver(in) ==
    \/ HeartbeatTick(in.maxCalls)
    \/ \E c \in 1..in.maxCalls : ProcessingTimeout(c)
    \/ \E c \in 1..in.maxCalls, r \in in.responses : GenerateContentSettles(c, r)
    \/ \E conn \in 1..in.maxConns, t \in in.transcripts, f \in BOOLEAN,
          sp \in in.speakers : OnTranscript(conn, t, f, sp, in.maxSegments)
    \/ \E conn \in 1..in.maxConns : OnDeepgramError(conn)
    \/ \E conn \in 1..in.maxConns : DeepgramOpens(conn)
    \/ \E conn \in 1..in.maxConns : DeepgramCloses(conn)
    \/ TimePasses
    \/ \E t \in in.templates : OnMessageUpdateTemplate(t)
    \/ \E f \in in.syncs, n \in in.notes : OnMessageContextUpdate(f, n)
    \/ OnMessageAudio(in.maxConns)
    \/ OnClose

\* ------------------------------------------------------------------------
\* Spec: the whole session from the state after construction
\* ------------------------------------------------------------------------
NoUpdates == [kind |-> "direct", value |-> [kind |-> "object"]]
OnlySkip ==
    [kind |-> "direct",
     value |-> [kind |-> "object", updates |-> <<U(IdB, "SKIP", Empty)>>]]
OneAppend ==
    [kind |-> "direct",
     value |-> [kind |-> "object", updates |-> <<U(IdA, "APPEND", BulletA)>>]]
Rejected == [kind |-> "reject"]

ShortTranscript == <<[n |-> 2, ws |-> FALSE]>>
LongTranscript == <<[n |-> 24987, ws |-> FALSE]>>

CoreInputs ==
    [ transcripts |-> { <<>>, ShortTranscript },
      speakers |-> {0},
      responses |-> { Rejected, NoUpdates, OnlySkip, OneAppend },
      templates |-> { <<[id |-> IdA]>> },
      syncs |-> { <<F(IdA, Empty), F(IdB, Empty)>> },
      notes |-> {Empty},
      maxCalls |-> MaxCalls,
      maxSegments |-> MaxSegments,
      maxConns |-> MaxConns ]

Next == NextOver(CoreInputs)

Spec == Init /\ [][Next]_vars

\* ------------------------------------------------------------------------
\* Specifications of a session that is already streaming: the first audio
\* frame has been handled (setupDeepgram, startHeartbeat) and the upstream
\* connection has opened.  The steps left out (audio frames, upstream
\* open/close/error, the passing of 55 minutes) read and write only
\* dgConnection, dg, sessionAge and heartbeat.
\* ------------------------------------------------------------------------
InitStreaming ==
    /\ dgConnection = 1
    /\ dg = <<"open">>
    /\ activeTemplate = <<>>
    /\ currentClientState = [fields |-> <<>>, userNotes |-> Empty]
    /\ slidingWindowTranscript = <<>>
    /\ processedTranscriptLength = 0
    /\ heartbeat = "running"
    /\ intervals = 1
    /\ sessionAge = "fresh"
    /\ isProcessing = FALSE
    /\ calls = <<>>
    /\ wsOpen = TRUE
    /\ nSegments = 0
    /\ rescanDue = FALSE
    /\ last = Ran("dgopen", 1, "", <<>>)

NextStreaming(in) ==
    \/ HeartbeatTick(in.maxCalls)
    \/ \E c \in 1..in.maxCalls : ProcessingTimeout(c)
    \/ \E c \in 1..in.maxCalls, r \in in.responses : GenerateContentSettles(c, r)
    \/ \E t \in in.transcripts, f \in BOOLEAN, sp \in in.speakers :
          OnTranscript(1, t, f, sp, in.maxSegments)
    \/ \E t \in in.templates : OnMessageUpdateTemplate(t)
    \/ \E f \in in.syncs, n \in in.notes : OnMessageContextUpdate(f, n)
    \/ OnClose

\* SyncSpec: control messages with every shape of id list
SyncInputs ==
    [ transcripts |-> { ShortTranscript },
      speakers |-> {0},
      responses |-> { Rejected, NoUpdates },
      templates |-> { <<>>, <<[id |-> IdA]>>, <<[id |-> IdA], [id |-> IdB]>> },
      syncs |-> { <<>>,
                  <<F(IdA, Empty)>>,
                  <<F(IdA, Empty), F(IdB, Empty)>>,
                  <<F(IdB, Empty), F(IdA, Empty)>>,
                  <<F(IdAB, Empty)>>,
                  <<F(IdA, Empty), F(IdC, Empty)>> },
      notes |-> {Empty},
      maxCalls |-> SyncCalls,
      maxSegments |-> SyncSegments ]

SyncNext == NextStreaming(SyncInputs)

SyncSpec == InitStreaming /\ [][SyncNext]_vars

\* TrimSpec: segments long enough to reach the safety cap
TrimInputs ==
    [ transcripts |-> { ShortTranscript, LongTranscript },
      speakers |-> {0},
      responses |-> { NoUpdates },
      templates |-> { <<[id |-> IdA]>> },
      syncs |-> { <<F(IdA, Empty), F(IdB, Empty)>> },
      notes |-> {Empty},
      maxCalls |-> TrimCalls,
      maxSegments |-> TrimSegments ]

TrimNext == NextStreaming(TrimInputs)

TrimSpec == InitStreaming /\ [][TrimNext]_vars

\* LiveSpec: the interval timer and the armed timeouts keep firing; a
\* generation call need never settle
LiveInputs ==
    [ transcripts |-> { ShortTranscript },
      speakers |-> {0},
      responses |-> { Rejected, NoUpdates },
      templates |-> { <<[id |-> IdA]>> },
      syncs |-> { <<F(IdA, Empty)>> },
      notes |-> {Empty},
      maxCalls |-> LiveCalls,
      maxSegments |-> LiveSegments ]

LiveNext == NextStreaming(LiveInputs)

LiveSpec ==
    /\ InitStreaming
    /\ [][LiveNext]_vars
    /\ WF_vars(HeartbeatTick(LiveCalls))
    /\ WF_vars(\E c \in 1..LiveCalls : ProcessingTimeout(c))

\* GuardSpec: segments sized so that the cap leaves a few unprocessed
\* characters after the cursor (39995 + 10010 = 50005 characters)
AlmostFullTranscript == <<[n |-> 39982, ws |-> FALSE]>>
OverflowTranscript == <<[n |-> 9997, ws |-> FALSE]>>

GuardInputs ==
    [ transcripts |-> { AlmostFullTranscript, OverflowTranscript },
      speakers |-> {0},
      responses |-> { NoUpdates },
      templates |-> { <<>>, <<[id |-> IdA]>> },
      syncs |-> { <<F(IdA, Empty)>> },
      notes |-> {Empty},
      maxCalls |-> GuardCalls,
      maxSegments |-> GuardSegments ]

GuardNext == NextStreaming(GuardInputs)

GuardSpec == InitStreaming /\ [][GuardNext]_vars

\* MergeSpec: extraction results of every shape the merge loop tells apart
Batch(updates) == [kind |-> "direct", value |-> [kind |-> "object", updates |-> updates]]

AppendUpper == Batch(<<U(IdA, "APPEND", BulletUpperA)>>)
AppendTwice == Batch(<<U(IdA, "APPEND", BulletA), U(IdA, "APPEND", PaddedA)>>)
ReplacePadded == Batch(<<U(IdA, "REPLACE", PaddedB)>>)
UnknownThenAppend == Batch(<<U(IdC, "APPEND", BulletA), U(IdA, "APPEND", BulletB)>>)
AppendThenNoValue ==
    Batch(<<U(IdA, "APPEND", BulletB), [fieldId |-> IdA, action |-> "REPLACE"]>>)

MergeInputs ==
    [ transcripts |-> { ShortTranscript },
      speakers |-> {0},
      responses |-> { OneAppend, AppendUpper, AppendTwice, ReplacePadded,
                      UnknownThenAppend, AppendThenNoValue },
      templates |-> { <<[id |-> IdA]>> },
      syncs |-> { <<F(IdA, ValB)>>, <<F(IdA, BulletA)>> },
      notes |-> {Empty},
      maxCalls |-> MergeCalls,
      maxSegments |-> MergeSegments ]

MergeNext == NextStreaming(MergeInputs)

MergeSpec == InitStreaming /\ [][MergeNext]_vars

\* AppendSpec: successive results that repeat an APPEND
AppendInputs ==
    [ transcripts |-> { ShortTranscript },
      speakers |-> {0},
      responses |-> { AppendUpper, AppendTwice },
      templates |-> { <<[id |-> IdA]>> },
      syncs |-> { <<F(IdA, ValB)>> },
      notes |-> {Empty},
      maxCalls |-> AppendCalls,
      maxSegments |-> AppendSegments ]

AppendNext == NextStreaming(AppendInputs)

AppendSpec == InitStreaming /\ [][AppendNext]_vars

\* ParseSpec: responses of every kind the JSON extraction tells apart
NoText == [kind |-> "notext"]
NoMatch == [kind |-> "nomatch"]
BadMatch == [kind |-> "badmatch"]
DirectNull == [kind |-> "direct", value |-> [kind |-> "null"]]
FallbackAppend ==
    [kind |-> "fallback",
     value |-> [kind |-> "object", updates |-> <<U(IdA, "APPEND", BulletA)>>]]

ParseInputs ==
    [ transcripts |-> { ShortTranscript },
      speakers |-> {0},
      responses |-> { Rejected, NoText, NoMatch, BadMatch, DirectNull,
                      FallbackAppend },
      templates |-> { <<[id |-> IdA]>> },
      syncs |-> { <<F(IdA, ValB)>> },
      notes |-> {Empty},
      maxCalls |-> ParseCalls,
      maxSegments |-> ParseSegments ]

ParseNext == NextStreaming(ParseInputs)

ParseSpec == InitStreaming /\ [][ParseNext]_vars

\* HandoffSpec: the whole session with a second upstream connection, so that
\* the 55-minute refresh can happen
HandoffInputs ==
    [ transcripts |-> { ShortTranscript },
      speakers |-> {0},
      responses |-> { NoUpdates },
      templates |-> { <<[id |-> IdA]>> },
      syncs |-> { <<F(IdA, Empty)>> },
      notes |-> {Empty},
      maxCalls |-> HandoffCalls,
      maxSegments |-> HandoffSegments,
      maxConns |-> HandoffConns ]

HandoffNext == NextOver(HandoffInputs)

HandoffSpec == Init /\ [][HandoffNext]_vars

\* FrameSpec: the whole session, each inbound message a frame that the
\* listener classifies
FrameInputs ==
    [ transcripts |-> { ShortTranscript },
      speakers |-> {0},
      responses |-> { NoUpdates },
      templates |-> { <<[id |-> IdA]>> },
      syncs |-> { <<F(IdA, Empty)>> },
      notes |-> {Empty},
      maxCalls |-> FrameCalls,
      maxSegments |-> FrameSegments,
      maxConns |-> FrameConns ]

FrameNext ==
    \/ HeartbeatTick(FrameCalls)
    \/ \E c \in 1..FrameCalls : ProcessingTimeout(c)
    \/ \E c \in 1..FrameCalls, r \in FrameInputs.responses : GenerateContentSettles(c, r)
    \/ \E conn \in 1..FrameConns, t \in FrameInputs.transcripts, f \in BOOLEAN :
          OnTranscript(conn, t, f, 0, FrameSegments)
    \/ \E conn \in 1..FrameConns : OnDeepgramError(conn)
    \/ \E conn \in 1..FrameConns : DeepgramOpens(conn)
    \/ \E conn \in 1..FrameConns : DeepgramCloses(conn)
    \/ TimePasses
    \/ \E frame \in Frames : OnMessage(frame, FrameInputs)
    \/ OnClose

FrameSpec == Init /\ [][FrameNext]_vars

\* SeedSpec: control messages that carry values and notes
SeedInputs ==
    [ transcripts |-> { ShortTranscript },
      speakers |-> {0},
      responses |-> { NoUpdates },
      templates |-> { <<>>, <<[id |-> IdA], [id |-> IdB]>> },
      syncs |-> { <<>>, <<F(IdA, ValB)>> },
      notes |-> {Empty, ValB},
      maxCalls |-> SeedCalls,
      maxSegments |-> SeedSegments ]

SeedNext == NextStreaming(SeedInputs)

SeedSpec == InitStreaming /\ [][SeedNext]_vars

\* LabelSpec: transcript results of every kind, with and without a speaker
LabelInputs ==
    [ transcripts |-> { <<>>, ShortTranscript },
      speakers |-> {-1, 12},
      responses |-> { NoUpdates },
      templates |-> { <<[id |-> IdA]>> },
      syncs |-> { <<F(IdA, Empty)>> },
      notes |-> {Empty},
      maxCalls |-> LabelCalls,
      maxSegments |-> LabelSegments ]

LabelNext == NextStreaming(LabelInputs)

LabelSpec == InitStreaming /\ [][LabelNext]_vars

\* RecoverSpec: a template emptied by an updateTemplate command while the
\* client state has fields
RecoverInputs ==
    [ transcripts |-> { ShortTranscript },
      speakers |-> {0},
      responses |-> { NoUpdates },
      templates |-> { <<>> },
      syncs |-> { <<>>, <<F(IdA, Empty)>> },
      notes |-> {Empty},
      maxCalls |-> RecoverCalls,
      maxSegments |-> RecoverSegments ]

RecoverNext == NextStreaming(RecoverInputs)

RecoverSpec == InitStreaming /\ [][RecoverNext]_vars

\* RetrySpec: enough calls for one to be issued after an earlier one has
\* timed out and a later one has failed
RetryInputs ==
    [ transcripts |-> { ShortTranscript },
      speakers |-> {0},
      responses |-> { Rejected, NoUpdates },
      templates |-> { <<[id |-> IdA]>> },
      syncs |-> { <<F(IdA, Empty)>> },
      notes |-> {Empty},
      maxCalls |-> RetryCalls,
      maxSegments |-> RetrySegments ]

RetryNext == NextStreaming(RetryInputs)

RetrySpec == InitStreaming /\ [][RetryNext]_vars

\* DrainSpec: the interval timer and the armed timeouts keep firing and every
\* generation call eventually settles with a result; the field ids never
\* change once the template is set
DrainInputs ==
    [ transcripts |-> { ShortTranscript },
      speakers |-> {0},
      responses |-> { NoUpdates },
      templates |-> { <<[id |-> IdA]>> },
      syncs |-> { <<F(IdA, Empty)>> },
      notes |-> {Empty},
      maxCalls |-> DrainCalls,
      maxSegments |-> DrainSegments ]

DrainNext == NextStreaming(DrainInputs)

DrainSpec ==
    /\ InitStreaming
    /\ [][DrainNext]_vars
    /\ WF_vars(HeartbeatTick(DrainCalls))
    /\ WF_vars(\E c \in 1..DrainCalls : ProcessingTimeout(c))
    /\ WF_vars(\E c \in 1..DrainCalls : GenerateContentSettles(c, NoUpdates))

\* MalformedSpec: text messages that are not what the handler expects
MalformedInputs ==
    [ transcripts |-> { ShortTranscript },
      speakers |-> {0},
      responses |-> { NoUpdates },
      templates |-> { <<[id |-> IdA]>>, NotAnArray },
      syncs |-> { <<F(IdA, Empty)>> },
      notes |-> {Empty},
      maxCalls |-> MalformedCalls,
      maxSegments |-> MalformedSegments ]

MalformedNext ==
    \/ NextStreaming(MalformedInputs)
    \/ OnMessageNotJson

MalformedSpec == InitStreaming /\ [][MalformedNext]_vars

\* ------------------------------------------------------------------------
\* src/unnamed/part_003: the server variant with a 'stop' text command.  Its
\* session has dgConnection, activeTemplate, slidingWindowTranscript,
\* heartbeat and connectionStartTime; it has no cursor, no client state and
\* no in-flight flag, and every request carries the whole buffer.
\* ------------------------------------------------------------------------
Part003TrimThreshold == 20000
Part003MinLength == 20

\* the variables the variant does not have
Part003Unused ==
    << currentClientState, processedTranscriptLength, isProcessing, rescanDue >>

\* the interval callback up to its await
Part003HeartbeatTick(maxCalls) ==
    /\ heartbeat = "running"
    /\ IF \/ TextLen(TextTrim(slidingWindowTranscript)) < Part003MinLength
          \/ Len(activeTemplate) = 0
       THEN /\ last' = Ran("tick", 0, "skip", <<>>)
            /\ UNCHANGED calls
       ELSE IF ~IsArray(activeTemplate)
       THEN \* activeTemplate.map throws inside the try block
            /\ last' = Ran("tick", 0, "threw", <<StatusMsg(TRUE), StatusMsg(FALSE)>>)
            /\ UNCHANGED calls
       ELSE /\ Len(calls) < maxCalls
            /\ calls' = Append(calls,
                               [st |-> "pending", timer |-> "none", age |-> 0,
                                newContent |-> slidingWindowTranscript,
                                lengthAtCall |-> TextLen(slidingWindowTranscript),
                                reset |-> FALSE])
            /\ last' = Ran("tick", Len(calls) + 1, "call", <<StatusMsg(TRUE)>>)
    /\ UNCHANGED << dgConnection, dg, activeTemplate, slidingWindowTranscript,
                    heartbeat, intervals, sessionAge, wsOpen, nSegments >>
    /\ UNCHANGED Part003Unused

\* the rest of the interval callback: generateContent settles with r
Part003GenerateContentSettles(c, r) ==
    /\ c \in 1..Len(calls)
    /\ calls[c].st = "pending"
    /\ IF r.kind = "direct"
       THEN /\ calls' = [calls EXCEPT ![c].st = "ok"]
            /\ last' = Ran("settle", c, "sent",
                           <<TemplateUpdateMsg(r.value), StatusMsg(FALSE)>>)
       ELSE \* a rejection, or text that JSON.parse refuses: logged
            /\ calls' = [calls EXCEPT ![c].st = "failed"]
            /\ last' = Ran("settle", c, r.kind, <<StatusMsg(FALSE)>>)
    /\ UNCHANGED << dgConnection, dg, activeTemplate, slidingWindowTranscript,
                    heartbeat, intervals, sessionAge, wsOpen, nSegments >>
    /\ UNCHANGED Part003Unused

\* the cap of the variant: slice(-20000) over 20000 characters
Part003CappedText(t) ==
    IF TextLen(t) > Part003TrimThreshold THEN TextSlice(t, -Part003TrimThreshold) ELSE t

\* the Transcript handler of connection conn
Part003OnTranscript(conn, transcript, isFinal, speaker, maxSegments) ==
    /\ conn \in 1..Len(dg)
    /\ dg[conn] \in {"open", "finishing"}
    /\ IF transcript # <<>> /\ isFinal
       THEN /\ nSegments < maxSegments
            /\ slidingWindowTranscript' =
                  Part003CappedText(
                      slidingWindowTranscript \o
                      SegmentText(nSegments + 1, Digits(SpeakerOf(speaker)), transcript))
            /\ nSegments' = nSegments + 1
            /\ last' = Ran("transcript", conn, "final",
                           <<TranscriptMsg(SpeakerOf(speaker), transcript)>>)
       ELSE /\ last' = Ran("transcript", conn, "ignored", <<>>)
            /\ UNCHANGED << slidingWindowTranscript, nSegments >>
    /\ UNCHANGED << dgConnection, dg, activeTemplate, heartbeat, intervals,
                    sessionAge, calls, wsOpen >>
    /\ UNCHANGED Part003Unused

\* the Open handler of connection conn
Part003DeepgramOpens(conn) ==
    /\ conn \in 1..Len(dg)
    /\ dg[conn] = "connecting"
    /\ dg' = [dg EXCEPT ![conn] = "open"]
    /\ last' = Ran("dgopen", conn, "", <<StatusMsg(FALSE)>>)
    /\ UNCHANGED << dgConnection, activeTemplate, slidingWindowTranscript,
                    heartbeat, intervals, sessionAge, calls, wsOpen, nSegments >>
    /\ UNCHANGED Part003Unused

\* a Buffer message (an audio frame)
Part003OnMessageAudio(maxConns) ==
    /\ wsOpen
    /\ IF sessionAge = "over55" \/ dgConnection = 0
       THEN /\ Len(dg) < maxConns
            /\ dg' = Append(Finished(dg, dgConnection), "connecting")
            /\ dgConnection' = Len(dg) + 1
            /\ sessionAge' = "fresh"
            \* if (!heartbeat) startHeartbeat(): a cleared handle is not null
            /\ heartbeat' = IF heartbeat = "null" THEN "running" ELSE heartbeat
            /\ intervals' = IF heartbeat = "null" THEN intervals + 1 ELSE intervals
            /\ last' = Ran("audio", 0, IF dgConnection = 0 THEN "setup" ELSE "handoff",
                           <<>>)
       ELSE /\ UNCHANGED << dg, dgConnection, sessionAge, heartbeat, intervals >>
            /\ last' = IF dg[dgConnection] = "open"
                       THEN Ran("audio", dgConnection, "forwarded", <<>>)
                       ELSE Ran("audio", 0, "dropped", <<>>)
    /\ UNCHANGED << activeTemplate, slidingWindowTranscript, calls, wsOpen, nSegments >>
    /\ UNCHANGED Part003Unused

\* the text command 'updateTemplate:' + JSON
Part003OnMessageUpdateTemplate(template) ==
    /\ wsOpen
    /\ activeTemplate' = template
    /\ last' = Ran("updateTemplate", 0, "", <<>>)
    /\ UNCHANGED << dgConnection, dg, slidingWindowTranscript, heartbeat, intervals,
                    sessionAge, calls, wsOpen, nSegments >>
    /\ UNCHANGED Part003Unused

\* the text command 'stop': clearInterval(heartbeat) leaves the handle in
\* heartbeat; the upstream handle is finished and set to null
Part003OnMessageStop ==
    /\ wsOpen
    /\ heartbeat' = IF heartbeat = "running" THEN "cleared" ELSE heartbeat
    /\ intervals' = IF heartbeat = "running" THEN intervals - 1 ELSE intervals
    /\ dg' = Finished(dg, dgConnection)
    /\ dgConnection' = 0
    /\ last' = Ran("stop", 0, "", <<>>)
    /\ UNCHANGED << activeTemplate, slidingWindowTranscript, sessionAge, calls,
                    wsOpen, nSegments >>
    /\ UNCHANGED Part003Unused

\* ws.on('close')
Part003OnClose ==
    /\ wsOpen
    /\ wsOpen' = FALSE
    /\ heartbeat' = IF heartbeat = "running" THEN "cleared" ELSE heartbeat
    /\ intervals' = IF heartbeat = "running" THEN intervals - 1 ELSE intervals
    /\ dg' = Finished(dg, dgConnection)
    /\ last' = Ran("close", 0, "", <<>>)
    /\ UNCHANGED << dgConnection, activeTemplate, slidingWindowTranscript,
                    sessionAge, calls, nSegments >>
    /\ UNCHANGED Part003Unused

\* StopSpec: the whole session of the variant
StopInputs ==
    [ transcripts |-> { ShortTranscript },
      speakers |-> {0},
      responses |-> { Rejected, NoUpdates },
      templates |-> { <<[id |-> IdA]>> },
      maxCalls |-> StopCalls,
      maxSegments |-> StopSegments,
      maxConns |-> StopConns ]

StopNext ==
    \/ Part003HeartbeatTick(StopCalls)
    \/ \E c \in 1..StopCalls, r \in StopInputs.responses :
          Part003GenerateContentSettles(c, r)
    \/ \E conn \in 1..StopConns, t \in StopInputs.transcripts, f \in BOOLEAN,
          sp \in StopInputs.speakers : Part003OnTranscript(conn, t, f, sp, StopSegments)
    \/ \E conn \in 1..StopConns : OnDeepgramError(conn)
    \/ \E conn \in 1..StopConns : Part003DeepgramOpens(conn)
    \/ \E conn \in 1..StopConns : DeepgramCloses(conn)
    \/ TimePasses
    \/ \E t \in StopInputs.templates : Part003OnMessageUpdateTemplate(t)
    \/ Part003OnMessageAudio(StopConns)
    \/ Part003OnMessageStop
    \/ Part003OnClose

StopSpec == Init /\ [][StopNext]_vars

\* ------------------------------------------------------------------------
\* Properties
\* ------------------------------------------------------------------------
\* generation calls whose promise has not settled
Outstanding == {c \in 1..Len(calls) : calls[c].st = "pending"}

\* the last step was a tick that issued a generation call
TickIssuedCall(l) == l.op = "tick" /\ l.info = "call"

\* the last step was the settling of a call that did not throw
SettledOk(l, cs) == l.op = "settle" /\ cs[l.call].st = "ok"

\* two texts share a character of some finalized segment
Overlap(t, u) ==
    \E i \in 1..Len(t), j \in 1..Len(u) :
        /\ t[i].seg = u[j].seg
        /\ t[i].off < u[j].off + u[j].n
        /\ u[j].off < t[i].off + t[i].n

\* C1: in every reachable state at most one generation call is outstanding.
C1_AtMostOneCallOutstanding == Cardinality(Outstanding) <= 1

\* C2: when a generation call succeeds, processedTranscriptLength becomes the
\* length the transcript buffer had when that call was issued.
C2_CursorSetToLengthAtCallTime ==
    [][SettledOk(last', calls')
         => processedTranscriptLength' = calls[last'.call].lengthAtCall]_vars

\* C3: a request never carries transcript content that an earlier request
\* already carried, unless that earlier call failed or a field-id-set change
\* reset the cursor after it was issued.
C3_ContentNeverSentTwice ==
    [][TickIssuedCall(last')
         => \A e \in 1..Len(calls) :
               Overlap(calls[e].newContent, calls'[Len(calls')].newContent)
                  => calls[e].st = "failed" \/ calls[e].reset]_vars

\* C4: after a context sync that changed the set of field ids, the next
\* request the scheduler issues carries the whole transcript buffer.
C4_NextRequestAfterIdChangeIsFullBuffer ==
    [][(rescanDue /\ TickIssuedCall(last'))
         => calls'[Len(calls')].newContent = slidingWindowTranscript]_vars

\* C5: whenever the set of field ids of the active template changes,
\* processedTranscriptLength is 0 immediately afterwards.
C5_TemplateIdChangeResetsCursor ==
    [][IdSet(activeTemplate') # IdSet(activeTemplate)
         => processedTranscriptLength' = 0]_vars

\* the last step was a contextUpdate with a non-empty field list
SyncedFields(l, state) == l.op = "contextUpdate" /\ Len(state.fields) > 0

\* C6: on a context sync with a non-empty field list, processedTranscriptLength
\* is reset to 0 if the set of incoming field ids differs from the set of ids
\* of the previously active template, and is left unchanged otherwise.
C6_SyncResetsCursorIffIdSetDiffers ==
    [][SyncedFields(last', currentClientState')
         => processedTranscriptLength' =
               IF IdSet(currentClientState'.fields) # IdSet(activeTemplate)
               THEN 0
               ELSE processedTranscriptLength]_vars

\* the last step appended a finalized segment
AppendedSegment(l) == l.op = "transcript" /\ l.info = "final"

\* the buffer before the safety cap of that step: the old buffer, a space
\* and the labelled text the step sent to the client
BeforeCap(l) ==
    slidingWindowTranscript \o
    SegmentText(nSegments + 1, Digits(l.out[1].speaker), l.out[1].text)

\* t is exactly the last k characters of u
IsLastChars(t, u, k) ==
    /\ TextLen(t) = k
    /\ \E i \in 1..Len(u) :
          LET rest == SubSeq(u, i + 1, Len(u))
              m == k - TextLen(rest)
          IN  /\ 0 < m
              /\ m <= u[i].n
              /\ t = <<[u[i] EXCEPT !.off = @ + (u[i].n - m), !.n = m]>> \o rest

\* the buffer has been cut by the safety cap
Trimmed ==
    /\ slidingWindowTranscript # <<>>
    /\ \/ slidingWindowTranscript[1].seg > 1
       \/ slidingWindowTranscript[1].off > 0

\* C7: 0 <= processedTranscriptLength <= length of the buffer in every
\* reachable state, and the buffer holds at most 50000 characters once a
\* finalized-segment handler has completed.
C7_CursorWithinBuffer ==
    /\ 0 <= processedTranscriptLength
    /\ processedTranscriptLength <= TextLen(slidingWindowTranscript)
    /\ last.op = "transcript" => TextLen(slidingWindowTranscript) <= TrimThreshold

\* a segment was appended, the cap cut the buffer and clamped the cursor
C7_Witness ==
    /\ AppendedSegment(last)
    /\ Trimmed
    /\ processedTranscriptLength = KeepSuffix
    /\ TextLen(slidingWindowTranscript) = KeepSuffix

\* C8: when an append makes the buffer longer than 50000 characters the
\* buffer becomes exactly the last 40000 characters of the text before the
\* cut and the cursor becomes min(cursor, 40000); otherwise the append leaves
\* the appended text and the cursor as they are.
C8_TrimKeepsLastCharsAndClampsCursor ==
    [][AppendedSegment(last')
         => IF TextLen(BeforeCap(last')) > TrimThreshold
            THEN /\ IsLastChars(slidingWindowTranscript', BeforeCap(last'), KeepSuffix)
                 /\ processedTranscriptLength' =
                        Min(processedTranscriptLength, KeepSuffix)
            ELSE /\ slidingWindowTranscript' = BeforeCap(last')
                 /\ processedTranscriptLength' = processedTranscriptLength]_vars

\* a segment was appended and the cap cut the buffer, the cursor staying
\* below 40000
C8_Witness ==
    /\ AppendedSegment(last)
    /\ Trimmed
    /\ TextLen(slidingWindowTranscript) = KeepSuffix
    /\ processedTranscriptLength > 0
    /\ processedTranscriptLength < KeepSuffix

\* character off of segment seg is in text t
HasChar(t, seg, off) ==
    \E i \in 1..Len(t) : t[i].seg = seg /\ t[i].off <= off /\ off < t[i].off + t[i].n

\* every stretch of characters that is both in t and in u lies within d
CommonWithin(t, u, d) ==
    \A i \in 1..Len(t), j \in 1..Len(u) :
        LET lo == Max(t[i].off, u[j].off)
            hi == Min(t[i].off + t[i].n, u[j].off + u[j].n)
        IN  (t[i].seg = u[j].seg /\ lo < hi)
               => HasChar(d, t[i].seg, lo) /\ HasChar(d, t[i].seg, hi - 1)

\* C9: after a trim, every character that was at or after the cursor before
\* the trim and is kept in the buffer is still at or after the cursor.
C9_TrimKeepsUnprocessedContentInDelta ==
    [][AppendedSegment(last')
         => CommonWithin(TextSlice(BeforeCap(last'), processedTranscriptLength),
                         slidingWindowTranscript',
                         TextSlice(slidingWindowTranscript',
                                   processedTranscriptLength'))]_vars

\* a status message with active:false is among the messages of the last step
SentIdle(l) == \E i \in 1..Len(l.out) : l.out[i] = StatusMsg(FALSE)

\* C10: whenever a tick sets the in-flight flag, the flag is eventually
\* cleared and a status active:false is eventually sent, even if the
\* generation call never settles.
C10_LockEventuallyReleased ==
    TickIssuedCall(last) ~> (~isProcessing /\ SentIdle(last))

\* the timeout of a call that has not settled released the lock
C10_Witness ==
    /\ last.op = "timeout"
    /\ last.info = "unlock"
    /\ calls[last.call].st = "pending"
    /\ ~isProcessing
    /\ SentIdle(last)

\* the last step ran the rest of the callback for call l.call
SettledStep(l) == l.op = "settle"

\* a message of the given type is among the messages of the last step
HasMsg(l, type) == \E i \in 1..Len(l.out) : l.out[i].type = type

\* C11: a generation result that arrives after the safety timeout of its call
\* has fired changes no field value, does not move processedTranscriptLength
\* and causes no templateUpdate message.
C11_LateResultDiscarded ==
    [][(SettledStep(last') /\ calls[last'.call].timer = "fired")
         => /\ currentClientState'.fields = currentClientState.fields
            /\ processedTranscriptLength' = processedTranscriptLength
            /\ ~HasMsg(last', "templateUpdate")]_vars

\* C12: once the client connection has closed the interval timer is cleared
\* and the current upstream handle has been told to finish; no tick runs and
\* no generation call is issued afterwards.
C12_NoTickAfterClose ==
    /\ [](~wsOpen => /\ heartbeat # "running"
                      /\ dgConnection # 0 => dg[dgConnection] \in {"finishing", "closed"})
    /\ [][~wsOpen => (last'.op # "tick" /\ Len(calls') = Len(calls))]_vars

\* the session closed while streaming with a call in flight, and the 15 s
\* timer of that call has gone off since
C12_Witness ==
    /\ ~wsOpen
    /\ heartbeat = "cleared"
    /\ dgConnection # 0
    /\ dg[dgConnection] \in {"finishing", "closed"}
    /\ last.op = "timeout"
    /\ Len(calls) > 0

\* C13: the result of a call that was in flight when the client disconnected
\* modifies no field value and no cursor, and sends no templateUpdate, status
\* or error message.
C13_ResultAfterCloseDiscarded ==
    [][(~wsOpen /\ SettledStep(last'))
         => /\ currentClientState'.fields = currentClientState.fields
            /\ processedTranscriptLength' = processedTranscriptLength
            /\ ~HasMsg(last', "templateUpdate")
            /\ ~HasMsg(last', "status")
            /\ ~HasMsg(last', "error")]_vars

\* the last step was a run of the interval callback up to its await
TickStep(l) == l.op = "tick"

\* the three guards of a tick, on the state the tick starts in
TemplateAvailable == Len(activeTemplate) > 0 \/ Len(currentClientState.fields) > 0
TrimmedDelta ==
    TextTrim(TextSlice(slidingWindowTranscript, processedTranscriptLength))
GuardsPass ==
    /\ TemplateAvailable
    /\ TextLen(TrimmedDelta) >= MinDelta
    /\ ~isProcessing

\* C14: a tick issues a generation call exactly when the template is
\* non-empty after recovery, the trimmed delta has at least 10 characters and
\* the in-flight flag is false, the guards being tried in this order; a tick
\* that issues no call sends nothing and leaves the flag, the cursor, the
\* buffer and the field values unchanged.
C14_TickIssuesCallIffGuardsPass ==
    [][TickStep(last')
         => /\ TickIssuedCall(last') <=> GuardsPass
            /\ last'.info = "waiting" <=> ~TemplateAvailable
            /\ last'.info = "nodelta"
                  <=> (TemplateAvailable /\ TextLen(TrimmedDelta) < MinDelta)
            /\ TickIssuedCall(last')
                  => /\ Len(calls') = Len(calls) + 1
                     /\ calls'[Len(calls')].st = "pending"
                     /\ isProcessing'
            /\ ~TickIssuedCall(last')
                  => /\ Len(calls') = Len(calls)
                     /\ last'.out = <<>>
                     /\ isProcessing' = isProcessing
                     /\ processedTranscriptLength' = processedTranscriptLength
                     /\ slidingWindowTranscript' = slidingWindowTranscript
                     /\ currentClientState' = currentClientState]_vars

\* a tick was skipped for a delta that is not empty but shorter than 10
\* characters, with a template present and no call in flight
C14_Witness ==
    /\ TickStep(last)
    /\ last.info = "nodelta"
    /\ TemplateAvailable
    /\ TextLen(TrimmedDelta) > 0
    /\ TextLen(TrimmedDelta) < MinDelta
    /\ ~isProcessing

\* the last step ran the merge loop; l.updates is what it went through
MergedStep(l) == l.op = "settle" /\ l.info \in {"merged", "threw"}

\* the update names a field of the client state
Known(fields, update) == FindField(fields, update.fieldId) # 0

\* the value of the field an update names
ValueOf(fields, update) == fields[FindField(fields, update.fieldId)].currentValue

\* what an APPEND value is compared by: trimmed, lower-cased, marker stripped
Content(value) == StripBullet(StrTrim(ToLowerCase(StrTrim(value))))

\* number of places where needle occurs in hay
Occurrences(hay, needle) ==
    Cardinality({i \in 0..(Len(hay) - Len(needle)) :
                    SubSeq(hay, i + 1, i + Len(needle)) = needle})

\* the spellings of candidate values a repeat may come in
AppendValues == { BulletA, BulletUpperA, PaddedA, <<"a">>, <<"A">>, <<"*", "a">>,
                  BulletB, PaddedB, ValB }

\* the content of each spelling
ContentOf == [v \in AppendValues |-> Content(v)]

\* the spellings of one content
Spellings(content) == {v \in AppendValues : ContentOf[v] = content}

AllAppends(updates) ==
    \A k \in 1..Len(updates) : updates[k].action = "APPEND" /\ HasValue(updates[k])

\* updates without those that repeat the field and content of an earlier one
RECURSIVE FirstCopies(_, _)
FirstCopies(updates, seen) ==
    IF updates = <<>> THEN <<>>
    ELSE LET key == <<Head(updates).fieldId, Content(Head(updates).value)>>
         IN  IF key \in seen THEN FirstCopies(Tail(updates), seen)
             ELSE <<Head(updates)>> \o FirstCopies(Tail(updates), seen \cup {key})

\* C15: APPEND deduplication is idempotent.  A result made of APPENDs leaves
\* the fields as the same result without its repeats would (twice in one
\* batch is once); applying any update of it again afterwards, in any spelling
\* of the same content (case, marker, padding), changes nothing (twice in
\* successive batches is once); and the content is stored once.
C15_AppendDedupIdempotent ==
    [][(MergedStep(last') /\ AllAppends(last'.updates))
         => LET old == currentClientState.fields
                new == currentClientState'.fields
                ups == last'.updates
            IN  /\ new = ApplyUpdates(StartMerge(old), FirstCopies(ups, {})).fields
                /\ \A k \in 1..Len(ups) :
                      Known(new, ups[k])
                         => /\ \A v \in Spellings(Content(ups[k].value)) :
                                  AppendValue(ValueOf(new, ups[k]), v) = ValueOf(new, ups[k])
                            /\ IF Includes(ToLowerCase(ValueOf(old, ups[k])),
                                           Content(ups[k].value))
                               THEN ValueOf(new, ups[k]) = ValueOf(old, ups[k])
                               ELSE Occurrences(ToLowerCase(ValueOf(new, ups[k])),
                                                Content(ups[k].value)) = 1]_vars

\* a second result repeated, in upper case, what the first result appended:
\* the field still holds the one copy and nothing was sent for it
C15_Witness ==
    /\ MergedStep(last)
    /\ last.call = 2
    /\ calls[1].st = "ok"
    /\ last.updates = <<U(IdA, "APPEND", BulletUpperA)>>
    /\ Occurrences(ValueOf(currentClientState.fields, last.updates[1]), BulletA) = 1
    /\ ~HasMsg(last, "templateUpdate")

\* the last step merged a result of one update, of the given action, that
\* names a known field
MergedOne(l, action) ==
    /\ MergedStep(l)
    /\ Len(l.updates) = 1
    /\ l.updates[1].action = action
    /\ HasValue(l.updates[1])
    /\ Known(currentClientState.fields, l.updates[1])

\* fields g differ from fields f at most in the value of the field update names
SameExcept(f, g, update) ==
    /\ Len(g) = Len(f)
    /\ \A i \in 1..Len(f) :
          i # FindField(f, update.fieldId) => g[i] = f[i]
    /\ g[FindField(f, update.fieldId)].id = update.fieldId

\* C16: an APPEND on a known field leaves the field unchanged when the
\* lower-cased existing value contains the lower-cased trimmed candidate
\* without its leading marker; otherwise the field becomes the trimmed
\* candidate when it was empty and existing + newline + trimmed candidate
\* when it was not.
C16_AppendRule ==
    [][MergedOne(last', "APPEND")
         => LET u == last'.updates[1]
                old == ValueOf(currentClientState.fields, u)
                new == ValueOf(currentClientState'.fields, u)
                candidate == StrTrim(u.value)
            IN  /\ SameExcept(currentClientState.fields, currentClientState'.fields, u)
                /\ new = IF Includes(ToLowerCase(old), StripBullet(ToLowerCase(candidate)))
                         THEN old
                         ELSE IF old = <<>> THEN candidate
                         ELSE old \o <<"\n">> \o candidate]_vars

\* "* a" was appended to an empty field: the field holds exactly "* a"
C16_Witness ==
    /\ MergedStep(last)
    /\ last.updates = <<U(IdA, "APPEND", BulletA)>>
    /\ HasMsg(last, "templateUpdate")
    /\ ValueOf(currentClientState.fields, last.updates[1]) = BulletA

\* C17: a REPLACE on a known field whose trimmed value equals the current
\* value leaves the field unchanged and causes no templateUpdate; otherwise
\* currentValue becomes exactly the trimmed proposed value.
C17_ReplaceRule ==
    [][MergedOne(last', "REPLACE")
         => LET u == last'.updates[1]
                old == ValueOf(currentClientState.fields, u)
                new == ValueOf(currentClientState'.fields, u)
            IN  /\ SameExcept(currentClientState.fields, currentClientState'.fields, u)
                /\ new = StrTrim(u.value)
                /\ HasMsg(last', "templateUpdate") <=> StrTrim(u.value) # old]_vars

\* " b " was to replace a value that already was "b": nothing changed and
\* nothing was sent
C17_Witness ==
    /\ MergedStep(last)
    /\ last.updates = <<U(IdA, "REPLACE", PaddedB)>>
    /\ ValueOf(currentClientState.fields, last.updates[1]) = ValB
    /\ ~HasMsg(last, "templateUpdate")

\* number of templateUpdate messages the last step sent
TemplateUpdates(l) ==
    Cardinality({i \in 1..Len(l.out) : l.out[i].type = "templateUpdate"})

\* C18: a step that handles an extraction result sends exactly one
\* templateUpdate, mapping every field id to its currentValue, when the
\* result changed a field value, and none when it changed none.
C18_TemplateUpdateIffChanged ==
    [][SettledStep(last')
         => IF currentClientState'.fields # currentClientState.fields
            THEN /\ TemplateUpdates(last') = 1
                 /\ \A i \in 1..Len(last'.out) :
                       last'.out[i].type = "templateUpdate"
                          => /\ DOMAIN last'.out[i].data = IdSet(currentClientState'.fields)
                             /\ \A f \in 1..Len(currentClientState'.fields) :
                                   last'.out[i].data[currentClientState'.fields[f].id]
                                      = currentClientState'.fields[f].currentValue
            ELSE TemplateUpdates(last') = 0]_vars

\* a is a prefix of b
IsPrefix(a, b) == Len(a) <= Len(b) /\ SubSeq(b, 1, Len(a)) = a

\* the last step applied a REPLACE to the field with this id
ReplacedBy(l, id) ==
    /\ MergedStep(l)
    /\ \E k \in 1..Len(l.updates) :
          l.updates[k].action = "REPLACE" /\ l.updates[k].fieldId = id

\* C19: in every step, the previous currentValue of every field is a prefix
\* of its new currentValue unless the step applied a REPLACE to that field.
C19_ValueOnlyGrowsExceptReplace ==
    [][\A i \in 1..Len(currentClientState.fields) :
          LET id == currentClientState.fields[i].id
              j == FindField(currentClientState'.fields, id)
          IN  \/ ReplacedBy(last', id)
              \/ /\ j # 0
                 /\ IsPrefix(currentClientState.fields[i].currentValue,
                             currentClientState'.fields[j].currentValue)]_vars

\* updates that name a field of the client state
RECURSIVE KnownOnly(_, _)
KnownOnly(fields, updates) ==
    IF updates = <<>> THEN <<>>
    ELSE IF Known(fields, Head(updates))
    THEN <<Head(updates)>> \o KnownOnly(fields, Tail(updates))
    ELSE KnownOnly(fields, Tail(updates))

\* the last step merged well-formed updates, one of them for an unknown field
MergedUnknown(l) ==
    /\ MergedStep(l)
    /\ \A k \in 1..Len(l.updates) : HasValue(l.updates[k])
    /\ \E k \in 1..Len(l.updates) : ~Known(currentClientState.fields, l.updates[k])

\* C20: an update whose fieldId matches no field changes no field and adds
\* none, sends no error message, and the other updates of the batch are
\* applied as if it were not there.
C20_UnknownFieldDiscarded ==
    [][MergedUnknown(last')
         => /\ IdsOf(currentClientState'.fields) = IdsOf(currentClientState.fields)
            /\ currentClientState'.fields =
                   ApplyUpdates(StartMerge(currentClientState.fields),
                                KnownOnly(currentClientState.fields, last'.updates)).fields
            /\ ~HasMsg(last', "error")]_vars

\* a batch began with an update for an unknown field and the update after
\* it was applied and reported
C20_Witness ==
    /\ MergedStep(last)
    /\ last.info = "merged"
    /\ ~Known(currentClientState.fields, last.updates[1])
    /\ Len(last.updates) = 2
    /\ Occurrences(ValueOf(currentClientState.fields, last.updates[2]), BulletB) = 1
    /\ HasMsg(last, "templateUpdate")

\* the last step handled the rejection of a generation call
RejectedStep(l) == SettledStep(l) /\ l.info = "reject"

\* C21: when a generation call fails the client is sent one error message
\* followed by status active:false, the in-flight flag is cleared and neither
\* a field value nor the cursor changes; and a tick whose guards pass issues
\* a generation call, also after a failure.
C21_FailureReportedAndSessionUsable ==
    /\ [][RejectedStep(last')
            => /\ Len(last'.out) = 2
               /\ last'.out[1].type = "error"
               /\ last'.out[2] = [type |-> "status", active |-> FALSE]
               /\ ~isProcessing'
               /\ currentClientState' = currentClientState
               /\ processedTranscriptLength' = processedTranscriptLength
               /\ calls'[last'.call].st = "failed"]_vars
    /\ [][(TickStep(last') /\ GuardsPass) => TickIssuedCall(last')]_vars

\* a tick issued a second call with the content of a call that had failed
C21_Witness ==
    /\ TickIssuedCall(last)
    /\ last.call = 2
    /\ calls[1].st = "failed"
    /\ calls[2].st = "pending"
    /\ calls[2].newContent = calls[1].newContent

\* the last step handled a response whose text did not parse directly and
\* from which the fallback extraction got no valid JSON either
UnparsableStep(l) == SettledStep(l) /\ l.info \in {"nomatch", "badmatch"}

\* C22: a response that is unparsable after the fallback extraction, whether
\* no brace-delimited text is found or the extracted text is invalid JSON,
\* changes no field, sends no error message, and the cursor still advances
\* to the end of the buffer.
C22_UnparsableIsNoOp ==
    [][UnparsableStep(last')
         => /\ currentClientState' = currentClientState
            /\ ~HasMsg(last', "error")
            /\ processedTranscriptLength' = TextLen(slidingWindowTranscript')]_vars

\* the last step handled a malformed text message
MalformedStep(l) ==
    \/ l.op = "text"
    \/ l.op = "updateTemplate" /\ l.info = "notarray"

\* C23: a malformed inbound text message leaves the template, the client
\* state, the cursor and the in-flight flag unchanged and sends nothing.
C23_MalformedTextIgnored ==
    [][MalformedStep(last')
         => /\ activeTemplate' = activeTemplate
            /\ currentClientState' = currentClientState
            /\ processedTranscriptLength' = processedTranscriptLength
            /\ isProcessing' = isProcessing
            /\ last'.out = <<>>]_vars

\* the last step handled an audio frame
AudioStep(l) == l.op = "audio"

\* the upstream connection the session holds has closed
UpstreamLost == dgConnection # 0 /\ dg[dgConnection] = "closed"

\* C24: after the upstream connection is lost, the next audio frame opens a
\* fresh upstream connection.
C24_AudioReopensLostUpstream ==
    [][(AudioStep(last') /\ UpstreamLost)
         => /\ Len(dg') = Len(dg) + 1
            /\ dgConnection' = Len(dg')
            /\ dg'[dgConnection'] = "connecting"]_vars

\* the audio handler has to refresh the upstream connection
RefreshDue == sessionAge = "over55" \/ dgConnection = 0

\* C25: an audio frame that arrives more than 55 minutes after
\* connectionStartTime, or with no upstream connection, finishes the old
\* connection, opens a new one and resets the age, and is not forwarded by
\* that step; a forwarded frame goes to the current connection, which is
\* open, not finished and less than 55 minutes old.
C25_RefreshBeforeForward ==
    /\ [][(AudioStep(last') /\ RefreshDue)
            => /\ Len(dg') = Len(dg) + 1
               /\ dgConnection' = Len(dg')
               /\ dg'[dgConnection'] = "connecting"
               /\ sessionAge' = "fresh"
               /\ dgConnection # 0 => dg'[dgConnection] \in {"finishing", "closed"}
               /\ last'.info # "forwarded"]_vars
    /\ [][(AudioStep(last') /\ last'.info = "forwarded")
            => /\ last'.call = dgConnection
               /\ sessionAge = "fresh"
               /\ dg[last'.call] = "open"]_vars

C25_Witness ==
    /\ AudioStep(last)
    /\ last.info = "forwarded"
    /\ last.call = 2
    /\ dg[1] \in {"finishing", "closed"}

\* C27: a message whose framing flag marks it as text is handled as a
\* control message, never as audio, whatever its first byte.
C27_FramingFlagDecidesKind ==
    [][\A frame \in Frames :
          (frame.flag = "text" /\ OnMessage(frame, FrameInputs))
             => ~AudioStep(last')]_vars

\* the client state an updateTemplate command seeds from its descriptors
Seeded(template) ==
    [i \in 1..Len(template) |-> [id |-> template[i].id, currentValue |-> Empty]]

\* C28: a context sync makes the client state's field list and userNotes
\* those of the message; an updateTemplate command makes its descriptor list
\* the active template and seeds the client state, every value empty, only
\* when the client state has no fields, leaving it unchanged otherwise;
\* neither changes the transcript buffer or the in-flight flag.
C28_ControlMessagesSetContext ==
    /\ [][\A fields \in SeedInputs.syncs, userNotes \in SeedInputs.notes :
             OnMessageContextUpdate(fields, userNotes)
                => /\ currentClientState'.fields = fields
                   /\ currentClientState'.userNotes = userNotes
                   /\ slidingWindowTranscript' = slidingWindowTranscript
                   /\ isProcessing' = isProcessing]_vars
    /\ [][\A template \in SeedInputs.templates :
             OnMessageUpdateTemplate(template)
                => /\ activeTemplate' = template
                   /\ currentClientState'.userNotes = currentClientState.userNotes
                   /\ currentClientState'.fields =
                         IF Len(currentClientState.fields) = 0
                         THEN Seeded(template)
                         ELSE currentClientState.fields
                   /\ slidingWindowTranscript' = slidingWindowTranscript
                   /\ isProcessing' = isProcessing]_vars

\* an updateTemplate command has arrived after a sync with a value and notes
C28_Witness ==
    /\ last.op = "updateTemplate"
    /\ currentClientState = [fields |-> <<F(IdA, ValB)>>, userNotes |-> ValB]
    /\ activeTemplate = <<[id |-> IdA], [id |-> IdB]>>
    /\ isProcessing
    /\ TextLen(slidingWindowTranscript) > 0

\* the segments of t are those received so far, in the order they arrived
InArrivalOrder(t) ==
    /\ { t[i].seg : i \in 1..Len(t) } = 1..nSegments
    /\ \A i, j \in 1..Len(t) : i < j => t[i].seg <= t[j].seg

\* the speaker number of the label, 0 when the result carries none
LabelOf(speaker) == IF speaker = -1 THEN 0 ELSE speaker

\* C29: a finalized, non-empty transcript result sends exactly one transcript
\* message and appends a space and "[Speaker N] <text>", N defaulting to 0, to
\* the end of the buffer; an interim or empty result appends nothing and
\* sends nothing; no other step changes the buffer; without trimming the
\* buffer is the finalized segments in arrival order.
C29_OnlyFinalResultsAppend ==
    /\ [](InArrivalOrder(slidingWindowTranscript))
    /\ [][\A transcript \in LabelInputs.transcripts, isFinal \in BOOLEAN,
             speaker \in LabelInputs.speakers :
             OnTranscript(1, transcript, isFinal, speaker, LabelSegments)
                => IF isFinal /\ transcript # <<>>
                   THEN /\ last'.out =
                              <<[type |-> "transcript", speaker |-> LabelOf(speaker),
                                 text |-> transcript, isFinal |-> TRUE]>>
                        /\ slidingWindowTranscript' =
                              slidingWindowTranscript \o
                              SegmentText(nSegments + 1, Digits(LabelOf(speaker)),
                                          transcript)
                   ELSE /\ last'.out = <<>>
                        /\ slidingWindowTranscript' = slidingWindowTranscript]_vars
    /\ [][slidingWindowTranscript' # slidingWindowTranscript
            => AppendedSegment(last')]_vars

\* a result without a speaker has been appended after one of speaker 12
C29_Witness ==
    /\ AppendedSegment(last)
    /\ last.out[1].speaker = 0
    /\ slidingWindowTranscript =
          SegmentText(1, 2, ShortTranscript) \o SegmentText(2, 1, ShortTranscript)

\* C30: a tick that finds the active template empty adopts the client
\* state's field list as the template when that list is non-empty, whatever
\* the later guards decide, and issues no call and sends nothing when it is
\* empty too.
C30_TickRecoversTemplate ==
    [][(TickStep(last') /\ Len(activeTemplate) = 0)
         => IF Len(currentClientState.fields) > 0
            THEN activeTemplate' =
                   [i \in 1..Len(currentClientState.fields) |->
                       [id |-> currentClientState.fields[i].id]]
            ELSE /\ activeTemplate' = <<>>
                 /\ last'.out = <<>>
                 /\ ~TickIssuedCall(last')
                 /\ Len(calls') = Len(calls)]_vars

\* a tick skipped by the in-flight guard has adopted the template
C30_Witness ==
    /\ TickStep(last)
    /\ last.recovered
    /\ last.info = "busy"
    /\ activeTemplate = <<[id |-> IdA]>>

\* C31: the transcript text of a request is slice(processedTranscriptLength)
\* of the buffer as the issuing tick finds them, and no later step changes
\* the text of a request already issued.
C31_RequestCarriesDeltaOfItsTick ==
    /\ [][TickIssuedCall(last')
            => /\ last'.call = Len(calls')
               /\ calls'[last'.call].newContent =
                     TextSlice(slidingWindowTranscript, processedTranscriptLength)
               /\ TextLen(calls'[last'.call].newContent) =
                     TextLen(slidingWindowTranscript) - processedTranscriptLength]_vars
    /\ [][\A c \in 1..Len(calls) :
             /\ c <= Len(calls')
             /\ calls'[c].newContent = calls[c].newContent]_vars

\* a segment arrived and the cap cut the buffer while a request was pending:
\* the request still has the text of its tick
C31_Witness ==
    /\ AppendedSegment(last)
    /\ Trimmed
    /\ \E c \in Outstanding :
          /\ calls[c].newContent # <<>>
          /\ calls[c].newContent[1].off = 0
          /\ calls[c].newContent #
                TextSlice(slidingWindowTranscript, processedTranscriptLength)

\* the last step settled call l.call with a failure
FailedStep(l, cs) == SettledStep(l) /\ cs[l.call].st = "failed"

\* every character of d is in t
Contains(t, d) ==
    \A i \in 1..Len(d) :
        /\ HasChar(t, d[i].seg, d[i].off)
        /\ HasChar(t, d[i].seg, d[i].off + d[i].n - 1)

\* C32: a failed generation call leaves processedTranscriptLength unchanged,
\* and when the latest call issued has failed, the request of the next tick
\* that passes the guards contains the content of the failed request.
C32_FailedContentSentAgain ==
    /\ [][FailedStep(last', calls')
            => processedTranscriptLength' = processedTranscriptLength]_vars
    /\ [][(TickIssuedCall(last') /\ Len(calls) > 0
              /\ calls[Len(calls)].st = "failed")
            => Contains(calls'[Len(calls')].newContent,
                        calls[Len(calls)].newContent)]_vars

\* the positions of the status messages among the messages of a step
StatusAt(out) == {i \in 1..Len(out) : out[i].type = "status"}

\* the last status message of the step says active:false
LastStatusIdle(out) ==
    /\ StatusAt(out) # {}
    /\ \A i \in StatusAt(out) :
          (\A j \in StatusAt(out) : j <= i) => ~out[i].active

\* C33 as stated: when the most recent status message sent to the client is
\* active:false, no generation call is outstanding.
C33_StatusIdleMeansNoCall ==
    [][LastStatusIdle(last'.out) => Outstanding' = {}]_vars

\* C33, amended: the most recent status message mirrors the in-flight flag.
\* A step that changes the flag sends a status message, and the last status
\* message of a step is active:true exactly when the flag is set after it.
C33_StatusMirrorsFlag ==
    [][/\ isProcessing' # isProcessing => StatusAt(last'.out) # {}
       /\ StatusAt(last'.out) # {}
            => (LastStatusIdle(last'.out) <=> ~isProcessing')]_vars

\* the completion of a call that had timed out reported idle while a later
\* call was outstanding
C33_Witness ==
    /\ SettledStep(last)
    /\ LastStatusIdle(last.out)
    /\ ~isProcessing
    /\ Outstanding # {}

\* the call that holds the in-flight flag: the flag is set only by the tick
\* that issues a call, so while it is set its holder is the latest call
Holder == IF isProcessing THEN Len(calls) ELSE 0

\* C34: the in-flight flag is cleared only by the completion or the safety
\* timeout of the call that holds it.
C34_FlagClearedByItsHolderOnly ==
    [][(isProcessing /\ ~isProcessing')
         => /\ last'.op \in {"settle", "timeout"}
            /\ last'.call = Holder]_vars

\* some request carries text of segment seg
Included(seg) ==
    \E c \in 1..Len(calls) :
        \E i \in 1..Len(calls[c].newContent) : calls[c].newContent[i].seg = seg

\* C35: with a template, a session that stays open and calls left to issue,
\* every finalized segment in the buffer is eventually part of the delta of
\* some request.
C35_SegmentEventuallyRequested ==
    \A seg \in 1..DrainSegments :
        (nSegments >= seg /\ Len(activeTemplate) > 0)
            ~> (Included(seg) \/ ~wsOpen \/ Len(calls) = DrainCalls)

\* C36: a session never has more than one interval timer; the timer is set
\* by the first audio frame and by no other step.
C36_AtMostOneIntervalTimer ==
    /\ [](intervals <= 1)
    /\ [][intervals' > intervals
            => /\ AudioStep(last')
               /\ last'.info = "setup"
               /\ intervals = 0
               /\ dgConnection = 0]_vars

\* an audio frame made a handoff and the session still has its one timer
C36_Witness ==
    /\ AudioStep(last)
    /\ last.info = "handoff"
    /\ heartbeat = "running"
    /\ intervals = 1

\* C37: an audio frame is forwarded only to the current upstream connection
\* and only when it is open as the frame is handled; a frame that finds the
\* connection connecting, the frame that opened it included, is not forwarded;
\* an audio frame changes nothing but what the setup or handoff changes.
C37_ForwardOnlyWhenOpen ==
    [][AudioStep(last')
         => /\ last'.info = "forwarded"
                 => /\ last'.call = dgConnection'
                    /\ dg'[dgConnection'] = "open"
                    /\ dg' = dg
            /\ dg'[dgConnection'] = "connecting" => last'.info # "forwarded"
            /\ last'.info \in {"forwarded", "dropped"}
                 => UNCHANGED << dgConnection, dg, sessionAge, heartbeat, intervals >>
            /\ UNCHANGED << activeTemplate, currentClientState,
                            slidingWindowTranscript, processedTranscriptLength,
                            isProcessing, calls, wsOpen, nSegments >>]_vars

\* a frame found the connection opened by a handoff still connecting and
\* was dropped
C37_Witness ==
    /\ AudioStep(last)
    /\ last.info = "dropped"
    /\ dgConnection = 2
    /\ dg[dgConnection] = "connecting"

\* C38: in the variant with the stop command, an audio frame that arrives
\* after a stop that cleared the scheduler leaves both the upstream
\* connection and the scheduler running.
C38_AudioAfterStopRestartsBoth ==
    [][(AudioStep(last') /\ heartbeat = "cleared")
         => /\ dgConnection' # 0
            /\ dg'[dgConnection'] \in {"connecting", "open"}
            /\ heartbeat' = "running"
            /\ intervals' = 1]_vars

====
